---- MODULE Spec2Model ----
(***************************************************************************)
(* Model of the Smart Adaptive Camouflage Suit demo (app.py) and of the    *)
(* label rule of its training script (train_model.py).                     *)
(*                                                                         *)
(* Representation.                                                         *)
(*  - A Python str is a sequence of one-character strings.                 *)
(*  - A SensorReading is a record with the dataclass's seven fields.  All  *)
(*    preset values are Python ints, so jitter() always takes its int()    *)
(*    branch and round(<int>, 1) returns the int: every jittered field is  *)
(*    an integer in the sensor's own unit.                                 *)
(*  - imu_yaw is kept in tenths of a degree (3600 is 360.0); the raw draw  *)
(*    random.uniform(0,360) is kept in fiftieths of a degree, a grid on    *)
(*    which rounding to one decimal never meets a tie.                     *)
(*  - The clock is the number of microseconds since midnight UTC.          *)
(*  - None is the record NoneVal.                                          *)
(*  - An actuator grid, always filled with one value, is the record of its *)
(*    dimensions and that value.                                           *)
(***************************************************************************)
EXTENDS Integers, Sequences, FiniteSets, TLC

VARIABLES
    pc,               \* "idle" | "done" | "error" (script run); "sensor" | "sampled";
                      \* "rules"; "logger"
    env,              \* st.selectbox("Demo environment") / the tag passed on
    manual_override,  \* st.checkbox
    manual_rgb,       \* st.color_picker value, or NoneVal
    actuator_choice,  \* st.radio("Actuator preview")
    sensor,           \* the SensorReading of this run
    issues,           \* list returned by safety.check
    clf,              \* what model.predict returned (mode and pattern)
    pred,             \* the pred dict after the override block
    led_state,        \* led_act.state
    eink_state,       \* eink_act.state
    heat_map,         \* thermo_act.heat_map
    score,            \* evaluate_pattern_visibility result, over ScoreDen
    err,              \* exception that ended the run, or "none"
    clock,            \* microseconds since midnight (datetime.utcnow)
    ticks,            \* how far the clock has advanced
    files,            \* DATA_DIR: file name -> payload
    returned,         \* file names returned by save_reading, in call order
    overwrites,       \* number of save_reading calls that opened an existing file
    temp_cutoff_c,    \* SafetyManager.temp_cutoff_c
    train_mode,       \* label assigned by train_model.py's rule
    applied           \* which of the rule functions have been called on sensor

vars == <<pc, env, manual_override, manual_rgb, actuator_choice, sensor, issues,
          clf, pred, led_state, eink_state, heat_map, score, err, clock, ticks,
          files, returned, overwrites, temp_cutoff_c, train_mode, applied>>

NoneVal == [none |-> TRUE]

\* ---------------------------------------------------------------- bounds
\* Jitter draws are k/JitterSteps of the field's pct, k in -JitterSteps..JitterSteps.
JitterSteps == 1
\* The clock advances by at most this many microseconds in one behaviour.
MaxTicks == 2
\* save_reading is called at most this many times in one behaviour of SpecLogger.
MaxSaves == 3

\* ------------------------------------------------------------- utilities
Min(a, b) == IF a < b THEN a ELSE b
Max(a, b) == IF a > b THEN a ELSE b
Abs(a) == IF a < 0 THEN 0 - a ELSE a
Range(s) == {s[i] : i \in 1..Len(s)}
Str(n) == ToString(n)

\* datetime.isoformat() + "Z", as tokens: hh:mm:ss, then .ffffff unless the
\* microsecond is 0 (isoformat omits the fraction then), then Z.
now_str(c) ==
    LET us == c % 1000000
        s  == (c \div 1000000) % 60
        m  == (c \div 60000000) % 60
        h  == ((c \div 60000000) \div 60) % 24
    IN  <<"T", Str(h), ":", Str(m), ":", Str(s)>>
        \o (IF us = 0 THEN <<>> ELSE <<".", Str(us)>>)
        \o <<"Z">>

\* str.replace(old, new) on a token sequence.
Replace(s, old, new) == [i \in 1..Len(s) |-> IF s[i] = old THEN new ELSE s[i]]

\* ------------------------------------------------------ sensor simulator
EnvLabels == {"grass", "sand", "urban", "night", "unknown"}

DefaultPreset ==
    [rgb |-> <<45,120,35>>, lux |-> 12000, cct |-> 5200, temperature_c |-> 30,
     thermal_c |-> 28, tof_mm |-> 200]

\* presets.get(environment, presets["grass"])
Preset(e) ==
    CASE e = "sand"  -> [rgb |-> <<194,178,128>>, lux |-> 20000, cct |-> 6000,
                         temperature_c |-> 35, thermal_c |-> 33, tof_mm |-> 250]
      [] e = "urban" -> [rgb |-> <<120,120,120>>, lux |-> 15000, cct |-> 5600,
                         temperature_c |-> 29, thermal_c |-> 29, tof_mm |-> 180]
      [] e = "night" -> [rgb |-> <<10,10,20>>, lux |-> 50, cct |-> 3000,
                         temperature_c |-> 22, thermal_c |-> 22, tof_mm |-> 120]
      [] OTHER       -> DefaultPreset

\* The nine random draws of one simulate_sensor call.
JitterFields == {"r", "g", "b", "lux", "cct", "temperature_c", "tof_mm", "thermal_c"}
Levels == (0 - JitterSteps)..JitterSteps
\* Draw vectors: every field at a common level, except at most one field.
DrawVectors ==
    {[f \in JitterFields |-> IF f = g THEN k ELSE j] :
        g \in JitterFields, k \in Levels, j \in Levels}
\* random.uniform(0,360) is 0 + 360*random() with random() in [0,1): the raw yaw
\* in fiftieths of a degree, 0 .. 17999 (359.98).
YawDraws == {0, 8999, 17997, 17998}

\* jitter(v, pct) for an int v: int(v*(1 + u)) with u = (pctPm/1000)*(k/JitterSteps),
\* in exact arithmetic (the float product may fall one unit lower when v*(1+u)
\* is a whole number).
jitter(v, pctPm, k) == (v * (1000 * JitterSteps + pctPm * k)) \div (1000 * JitterSteps)

\* round(x, 1) of a value given in fiftieths, result in tenths.
RoundTenths(y) == (y + 2) \div 5

simulate_sensor(e, d, y) ==
    LET base == Preset(e)
    IN  [rgb |-> <<jitter(base.rgb[1], 50, d["r"]), jitter(base.rgb[2], 50, d["g"]),
                   jitter(base.rgb[3], 50, d["b"])>>,
         lux |-> jitter(base.lux, 120, d["lux"]),
         cct |-> jitter(base.cct, 50, d["cct"]),
         temperature_c |-> jitter(base.temperature_c, 60, d["temperature_c"]),
         imu_yaw |-> RoundTenths(y),
         tof_mm |-> jitter(base.tof_mm, 150, d["tof_mm"]),
         thermal_c |-> jitter(base.thermal_c, 80, d["thermal_c"])]

\* ------------------------------------------------------- decision model
\* TinyDecisionModel.rules
DarkThreshold == 100
ThermalThreshold == 25
ThermalMargin == 5

\* Predict with the two tests in the wrong order (thermal before dark).
PredictThermalFirst(s) ==
    IF s.thermal_c > ThermalThreshold + ThermalMargin
    THEN [mode |-> "thermal",
          pattern |-> [type |-> "thermal-match",
                       info |-> "use thermochromic prototypes"]]
    ELSE IF s.lux < DarkThreshold
    THEN [mode |-> "low_light",
          pattern |-> [type |-> "darker",
                       info |-> "reduce brightness, increase contrast edges"]]
    ELSE [mode |-> "visual_blend",
          pattern |-> [type |-> "colour_fill", rgb |-> s.rgb]]

\* Predict with the dark test on the wrong side of the threshold.
PredictDarkFlipped(s) ==
    IF s.lux > DarkThreshold
    THEN [mode |-> "low_light",
          pattern |-> [type |-> "darker",
                       info |-> "reduce brightness, increase contrast edges"]]
    ELSE IF s.thermal_c > ThermalThreshold + ThermalMargin
    THEN [mode |-> "thermal",
          pattern |-> [type |-> "thermal-match",
                       info |-> "use thermochromic prototypes"]]
    ELSE [mode |-> "visual_blend",
          pattern |-> [type |-> "colour_fill", rgb |-> s.rgb]]

Predict(s) ==
    IF s.lux < DarkThreshold
    THEN [mode |-> "low_light",
          pattern |-> [type |-> "darker",
                       info |-> "reduce brightness, increase contrast edges"]]
    ELSE IF s.thermal_c > ThermalThreshold + ThermalMargin
    THEN [mode |-> "thermal",
          pattern |-> [type |-> "thermal-match",
                       info |-> "use thermochromic prototypes"]]
    ELSE [mode |-> "visual_blend",
          pattern |-> [type |-> "colour_fill", rgb |-> s.rgb]]

\* ------------------------------------------------------- safety manager
CloseSurfaceMm == 50
\* SafetyManager(temp_cutoff_c=65.0) as instantiated by the app; 60.0 by default.
AppCutoff == 65
DefaultCutoff == 60

\* SafetyCheck with the thermal rule nested under the ambient rule (elif) and
\* a non-strict distance test.
SafetyCheckChained(s, cutoff) ==
    LET i1 == IF s.temperature_c > cutoff THEN <<"ambient_over_temp">>
              ELSE IF s.thermal_c > cutoff
                   THEN <<"thermal_patch_over_temperature">> ELSE <<>>
        i3 == IF s.tof_mm <= CloseSurfaceMm
              THEN Append(i1, "collision_risk_close_surface") ELSE i1
    IN  i3

SafetyCheck(s, cutoff) ==
    LET i1 == IF s.temperature_c > cutoff THEN <<"ambient_over_temp">> ELSE <<>>
        i2 == IF s.thermal_c > cutoff
              THEN Append(i1, "thermal_patch_over_temperature") ELSE i1
        i3 == IF s.tof_mm < CloseSurfaceMm
              THEN Append(i2, "collision_risk_close_surface") ELSE i2
    IN  i3

\* ------------------------------------------------- training label rule
TrainDark == 120
TrainThermal == 32

TrainLabel(lux, thermal_temp) ==
    IF lux < TrainDark THEN "low_light"
    ELSE IF thermal_temp > TrainThermal THEN "thermal"
    ELSE "visual_blend"

\* ------------------------------------------------- manual override block
\* Characters of the override strings enumerated below.
LowerHex == <<"0","1","2","3","4","5","6","7","8","9","a","b","c","d","e","f">>
UpperHex == <<"A","B","C","D","E","F">>
IsHexDigit(c) == c \in Range(LowerHex) \cup Range(UpperHex)
DigitVal(c) ==
    IF c \in Range(LowerHex)
    THEN (CHOOSE i \in 1..16 : LowerHex[i] = c) - 1
    ELSE (CHOOSE i \in 1..6 : UpperHex[i] = c) + 9

\* str.lstrip(c): drop every leading c.
RECURSIVE LStrip(_, _)
LStrip(s, c) == IF Len(s) > 0 /\ s[1] = c THEN LStrip(Tail(s), c) ELSE s
\* drop every trailing c.
RECURSIVE RStrip(_, _)
RStrip(s, c) ==
    IF Len(s) > 0 /\ s[Len(s)] = c THEN RStrip(SubSeq(s, 1, Len(s) - 1), c) ELSE s

\* s[i:j] with Python's clamping of the slice to the string.
Slice(s, i, j) == SubSeq(s, i + 1, Min(j, Len(s)))

RECURSIVE DigitsVal(_)
DigitsVal(s) ==
    IF Len(s) = 0 THEN 0
    ELSE 16 * DigitsVal(SubSeq(s, 1, Len(s) - 1)) + DigitVal(s[Len(s)])

\* int(t, 16) for a slice t of at most two characters: surrounding whitespace
\* is stripped, one sign is accepted, the rest must be one or more hex digits
\* (a "0x" prefix or an underscore needs three characters to be valid).
\* ok = FALSE is ValueError.
PyIntHex(t) ==
    LET u      == RStrip(LStrip(t, " "), " ")
        signed == Len(u) > 0 /\ u[1] \in {"+", "-"}
        digits == IF signed THEN Tail(u) ELSE u
        good   == Len(digits) > 0 /\ \A i \in 1..Len(digits) : IsHexDigit(digits[i])
    IN  IF ~good THEN [ok |-> FALSE, val |-> 0]
        ELSE [ok |-> TRUE,
              val |-> IF signed /\ u[1] = "-" THEN 0 - DigitsVal(digits)
                      ELSE DigitsVal(digits)]

\* Start offsets of the three slices: for i in (0,2,4).
HexOffsets == <<0, 2, 4>>

\* ParseOverride without the lstrip("#").
ParseOverrideNoStrip(str) ==
    LET parts == [k \in 1..3 |->
                     PyIntHex(Slice(str, HexOffsets[k], HexOffsets[k] + 2))]
    IN  [ok  |-> \A k \in 1..3 : parts[k].ok,
         rgb |-> <<parts[1].val, parts[2].val, parts[3].val>>]

\* Lines 230-231: hexcode = manual_rgb.lstrip("#"); the three int(...) calls.
ParseOverride(str) ==
    LET hexcode == LStrip(str, "#")
        parts   == [k \in 1..3 |->
                       PyIntHex(Slice(hexcode, HexOffsets[k], HexOffsets[k] + 2))]
    IN  [ok  |-> \A k \in 1..3 : parts[k].ok,
         rgb |-> <<parts[1].val, parts[2].val, parts[3].val>>]

\* Values st.color_picker returns: "#rrggbb" in lower case.
PickerStrings ==
    { <<"#","f","f","0","0","0","0">>,          \* "#ff0000"
      <<"#","2","d","7","8","2","3">>,          \* "#2d7823", the picker's default
      <<"#","0","0","f","f","7","f">> }         \* "#00ff7f"

\* Strings the override block is given when its input is any str, well
\* formed or not.
OverrideStrings ==
    { <<"#","f","f","0","0","0","0">>,          \* "#ff0000"
      <<"f","f","0","0","0","0">>,              \* "ff0000"
      <<"#","2","d","7","8","2","3">>,          \* "#2d7823"
      <<"#","0","0","f","f","7","f">>,          \* "#00ff7f"
      <<"0","0","F","F","7","f">>,              \* "00FF7f"
      <<"z","z","z","z","z","z">>,              \* "zzzzzz"
      <<"#","f","f","f","f","f">>,              \* "#fffff", five digits
      <<"#","f","f","0","0","0","0","1">>,      \* "#ff00001", seven digits
      <<"#","0","0","f","f">>,                  \* "#00ff", four digits
      <<"+","f","+","f","+","f">>,              \* "+f+f+f"
      <<"#","#","f","f","0","0","0","0">>,      \* "##ff0000"
      <<"#">>,                                  \* "#"
      <<>> }                                    \* ""

\* ------------------------------------------------------------ actuators
LEDWidth == 16
LEDHeight == 8
EInkCols == 8
EInkRows == 8

\* [[v for _ in range(cols)] for _ in range(rows)]: every grid the program
\* builds holds one value in all its cells, so a grid is kept as its
\* dimensions and that value.
Grid(rows, cols, v) == [rows |-> rows, cols |-> cols, fill |-> v]

LEDInit == Grid(LEDHeight, LEDWidth, <<0,0,0>>)
EInkInit == Grid(EInkRows, EInkCols, "white")

\* pred["pattern"].get("rgb", (0,0,0)) in every cell.
LEDPattern(pattern) ==
    Grid(LEDHeight, LEDWidth,
         IF "rgb" \in DOMAIN pattern THEN pattern.rgb ELSE <<0,0,0>>)

EInkPattern(pattern) ==
    Grid(EInkRows, EInkCols, IF pattern.type = "darker" THEN "dark" ELSE "light")

ActuatorChoices == {"LED matrix", "E-Ink", "Thermochromic demo"}

\* ------------------------------------------------------------- scoring
LuxFull == 50000
ColourFull == 255
\* Scores are numerators over ScoreDen, so base and 0.5*penalty are exact.
ScoreDen == LuxFull * 6 * ColourFull

evaluate_pattern_visibility(s, pattern) ==
    LET base == Max(0, LuxFull - s.lux) * (6 * ColourFull)
        half_penalty ==
            IF pattern.type = "colour_fill" /\ "rgb" \in DOMAIN pattern
            THEN Abs((s.rgb[1] + s.rgb[2] + s.rgb[3])
                     - (pattern.rgb[1] + pattern.rgb[2] + pattern.rgb[3])) * LuxFull
            ELSE ScoreDen \div 10
    IN  Max(0, Min(ScoreDen, base + half_penalty))

\* ---------------------------------------------------------- data logger
DATA_DIR == "/mnt/data/suit_data"

\* os.path.join(dirpath, f"reading_{ts}.json") with ts = now_str().replace(":","_")
SaveName(t) ==
    <<DATA_DIR, "/", "reading_">> \o Replace(now_str(t), ":", "_") \o <<".json">>

SavePayload(t, s, model_output, tag) ==
    [timestamp |-> now_str(t), sensor |-> s, model |-> model_output, tag |-> tag]

\* open(fname, "w") + json.dump: creates the file or replaces its content.
WriteFile(fs, name, payload) ==
    [n \in DOMAIN fs \cup {name} |-> IF n = name THEN payload ELSE fs[n]]

NoFiles == [n \in {} |-> NoneVal]

\* ------------------------------------------------------ the script run
\* Clock values at which a behaviour may start: at a whole second, and one
\* microsecond before one.
ClockStarts == {0, 999999}

\* The dummy reading the variables hold before any reading was taken.
NoReading ==
    [rgb |-> <<0,0,0>>, lux |-> 0, cct |-> 0, temperature_c |-> 0, imu_yaw |-> 0,
     tof_mm |-> 0, thermal_c |-> 0]

\* State shared by every specification's initial states.
Blank ==
    /\ env = "grass"
    /\ manual_override = FALSE
    /\ manual_rgb = NoneVal
    /\ actuator_choice = "LED matrix"
    /\ issues = <<>>
    /\ clf = NoneVal
    /\ pred = NoneVal
    /\ led_state = LEDInit
    /\ eink_state = EInkInit
    /\ heat_map = NoneVal
    /\ score = NoneVal
    /\ err = "none"
    /\ clock \in ClockStarts
    /\ ticks = 0
    /\ files = NoFiles
    /\ returned = <<>>
    /\ overwrites = 0
    /\ train_mode = "none"
    /\ applied = {}

\* Lines 189-216 have run: widgets drawn, modules instantiated, button not
\* yet clicked.
Init ==
    /\ Blank
    /\ pc = "idle"
    /\ sensor = NoReading
    /\ temp_cutoff_c = AppCutoff

\* Options of the environment selectbox (line 195).
SelectboxEnvs == {"grass", "sand", "urban", "night"}

\* Lines 230-232 applied to the classifier's output.
Overridden(p0, str) ==
    [p0 EXCEPT !.pattern = [type |-> "colour_fill", rgb |-> ParseOverride(str).rgb]]

\* One click on "Sample sensors & run model": lines 218-253, run to the end
\* or to the exception that ends the script run.
\*   e, mo, str, ac: the widget values; d, y: the random draws;
\*   dt: clock advance between save_reading's two now_str() calls.
\*   strings: the values manual_rgb may take when the override is on.
\* Each primed variable holds the value the run computed at that line.
RunDemoWith(strings) ==
    /\ pc = "idle"
    /\ \E e \in SelectboxEnvs, d \in DrawVectors, y \in YawDraws :
         /\ env' = e
         /\ sensor' = simulate_sensor(e, d, y)
    /\ issues' = SafetyCheck(sensor', temp_cutoff_c)
    /\ clf' = Predict(sensor')
    /\ \E mo \in BOOLEAN :
         /\ manual_override' = mo
         /\ \E str \in (IF mo THEN strings ELSE {<<>>}) :
              /\ manual_rgb' = IF mo THEN str ELSE NoneVal
              /\ IF mo /\ Len(str) > 0           \* manual_override and manual_rgb
                 THEN IF ParseOverride(str).ok
                      THEN pred' = Overridden(clf', str) /\ err' = "none"
                      ELSE pred' = clf' /\ err' = "ValueError"
                 ELSE pred' = clf' /\ err' = "none"
    /\ IF err' = "ValueError"
       THEN /\ pc' = "error"
            /\ UNCHANGED <<actuator_choice, led_state, eink_state, heat_map,
                           score, clock, files, returned, overwrites>>
       ELSE /\ pc' = "done"
            /\ \E ac \in ActuatorChoices :
                 /\ actuator_choice' = ac
                 /\ led_state' = IF ac = "LED matrix"
                                 THEN LEDPattern(pred'.pattern) ELSE led_state
                 /\ eink_state' = IF ac = "E-Ink"
                                  THEN EInkPattern(pred'.pattern) ELSE eink_state
                 /\ heat_map' = IF ac = "Thermochromic demo"
                                THEN [demo |-> TRUE] ELSE heat_map
            /\ score' = evaluate_pattern_visibility(sensor', pred'.pattern)
            /\ \E dt \in 0..1 :
                 /\ clock' = clock + dt
                 /\ files' = WriteFile(files, SaveName(clock),
                                       SavePayload(clock', sensor', pred', env'))
            /\ returned' = Append(returned, SaveName(clock))
            /\ overwrites' = overwrites
                             + (IF SaveName(clock) \in DOMAIN files THEN 1 ELSE 0)
    /\ UNCHANGED <<ticks, temp_cutoff_c, train_mode, applied>>

\* The app: manual_rgb comes from st.color_picker.
RunDemo == RunDemoWith(PickerStrings)

Next == RunDemo

Spec == Init /\ [][Next]_vars

\* The same run with the override string taken as an arbitrary str.
RunDemoAnyString == RunDemoWith(OverrideStrings)

SpecOverride == Init /\ [][RunDemoAnyString]_vars

\* ------------------------------------------- simulate_sensor on its own
InitSensor ==
    /\ Blank
    /\ pc = "sensor"
    /\ sensor = NoReading
    /\ temp_cutoff_c = AppCutoff

\* simulate_sensor(environment) called with any label, known or not.
Simulate ==
    /\ pc = "sensor"
    /\ \E e \in EnvLabels, d \in DrawVectors, y \in YawDraws :
         /\ env' = e
         /\ sensor' = simulate_sensor(e, d, y)
    /\ pc' = "sampled"
    /\ UNCHANGED <<applied, manual_override, manual_rgb, actuator_choice, issues, clf,
                   pred, led_state, eink_state, heat_map, score, err, clock, ticks,
                   files, returned, overwrites, temp_cutoff_c, train_mode>>

SpecSensor == InitSensor /\ [][Simulate]_vars

\* ---------------------------------------------- DataLogger on its own
\* Arguments save_reading is called with: two readings of different
\* environments, each with the classifier's output and its tag.
LogEnvs == {"grass", "night"}
LogReading(e) == simulate_sensor(e, [f \in JitterFields |-> 0], 0)

InitLogger ==
    /\ Blank
    /\ pc = "logger"
    /\ sensor = NoReading
    /\ temp_cutoff_c = AppCutoff

\* The clock advances between two calls.
Tick ==
    /\ pc = "logger"
    /\ ticks < MaxTicks
    /\ clock' = clock + 1
    /\ ticks' = ticks + 1
    /\ UNCHANGED <<pc, env, manual_override, manual_rgb, actuator_choice, sensor,
                   issues, clf, pred, led_state, eink_state, heat_map, score, err,
                   files, returned, overwrites, temp_cutoff_c, train_mode, applied>>

\* logger.save_reading(sensor, model_output, tag): lines 158-164.  dt is the
\* clock advance between the now_str() of line 159 and that of line 161.
SaveReading ==
    /\ pc = "logger"
    /\ Len(returned) < MaxSaves
    /\ \E e \in LogEnvs :
         /\ env' = e
         /\ sensor' = LogReading(e)
    /\ pred' = Predict(sensor')
    /\ \E dt \in 0..Min(1, MaxTicks - ticks) :
         /\ clock' = clock + dt
         /\ ticks' = ticks + dt
    /\ files' = WriteFile(files, SaveName(clock),
                          SavePayload(clock', sensor', pred', env'))
    /\ returned' = Append(returned, SaveName(clock))
    /\ overwrites' = overwrites + (IF SaveName(clock) \in DOMAIN files THEN 1 ELSE 0)
    /\ UNCHANGED <<pc, manual_override, manual_rgb, actuator_choice, issues, clf,
                   led_state, eink_state, heat_map, score, err, temp_cutoff_c,
                   train_mode, applied>>

NextLogger == Tick \/ SaveReading

SpecLogger == InitLogger /\ [][NextLogger]_vars

\* ------------------------- the rule functions on arbitrary readings
RuleReadings ==
    [rgb : {<<120,120,120>>, <<10,10,20>>},
     lux : {50, 99, 100, 101, 110, 119, 120, 15000},
     cct : {5600},
     temperature_c : {22, 60, 61, 65, 66},
     imu_yaw : {0},
     tof_mm : {49, 50, 51},
     thermal_c : {22, 25, 26, 29, 30, 31, 32, 33, 40, 60, 61, 65, 66}]

InitRules ==
    /\ Blank
    /\ pc = "rules"
    /\ sensor \in RuleReadings
    /\ temp_cutoff_c \in {DefaultCutoff, AppCutoff}

\* model.predict(sensor)
CallPredict ==
    /\ pc = "rules"
    /\ clf' = Predict(sensor)
    /\ applied' = applied \cup {"predict"}
    /\ UNCHANGED <<pc, env, manual_override, manual_rgb, actuator_choice, sensor,
                   issues, pred, led_state, eink_state, heat_map, score, err, clock,
                   ticks, files, returned, overwrites, temp_cutoff_c, train_mode>>

\* safety.check(sensor)
CallCheck ==
    /\ pc = "rules"
    /\ issues' = SafetyCheck(sensor, temp_cutoff_c)
    /\ applied' = applied \cup {"check"}
    /\ UNCHANGED <<pc, env, manual_override, manual_rgb, actuator_choice, sensor,
                   clf, pred, led_state, eink_state, heat_map, score, err, clock,
                   ticks, files, returned, overwrites, temp_cutoff_c, train_mode>>

\* train_model.py's label for a row with this lux and thermal_temp
CallTrainLabel ==
    /\ pc = "rules"
    /\ train_mode' = TrainLabel(sensor.lux, sensor.thermal_c)
    /\ applied' = applied \cup {"train"}
    /\ UNCHANGED <<pc, env, manual_override, manual_rgb, actuator_choice, sensor,
                   issues, clf, pred, led_state, eink_state, heat_map, score, err,
                   clock, ticks, files, returned, overwrites, temp_cutoff_c>>

NextRules == CallPredict \/ CallCheck \/ CallTrainLabel

SpecRules == InitRules /\ [][NextRules]_vars

\* =============================================================== claims
\* The record written by the last save_reading call.
LastRecord == files[returned[Len(returned)]]

\* "exactly 6 hex digits with an optional leading '#'"
WellFormed(str) ==
    LET h == IF Len(str) > 0 /\ str[1] = "#" THEN Tail(str) ELSE str
    IN  Len(h) = 6 /\ \A i \in 1..6 : IsHexDigit(h[i])

\* The colour each well-formed override string denotes, written out.
ExpectedRGB(str) ==
    CASE str = <<"#","f","f","0","0","0","0">> -> <<255, 0, 0>>
      [] str = <<"f","f","0","0","0","0">>     -> <<255, 0, 0>>
      [] str = <<"#","2","d","7","8","2","3">> -> <<45, 120, 35>>
      [] str = <<"#","0","0","f","f","7","f">> -> <<0, 255, 127>>
      [] str = <<"0","0","F","F","7","f">>     -> <<0, 255, 127>>

\* C1: the names returned by N save_reading calls on one directory are
\* pairwise distinct, and no call opens a file an earlier call wrote, also
\* when the clock shows the same value at two calls.
C1_DistinctNamesNoOverwrite ==
    /\ \A i, j \in 1..Len(returned) : i # j => returned[i] # returned[j]
    /\ overwrites = 0
    /\ Cardinality(DOMAIN files) = Len(returned)

\* C2: a run whose manual override is on and whose (non-empty) override
\* string is not well formed ends in a validation error before a pattern is
\* built from the string: nothing is dispatched, scored or persisted.
C2_MalformedOverrideRejected ==
    (pc \in {"done", "error"} /\ manual_override /\ Len(manual_rgb) > 0
       /\ ~WellFormed(manual_rgb))
        => /\ pc = "error"
           /\ err = "ValueError"
           /\ pred = clf
           /\ led_state = LEDInit /\ eink_state = EInkInit /\ heat_map = NoneVal
           /\ files = NoFiles

\* C3: a run whose override string is not well formed still completes: it
\* dispatches, scores and persists exactly one record, whose pattern is the one
\* predict returned.
C3_MalformedOverrideRecovered ==
    (pc \in {"done", "error"} /\ manual_override /\ ~WellFormed(manual_rgb))
        => /\ pc = "done"
           /\ pred = clf
           /\ Len(returned) = 1
           /\ Cardinality(DOMAIN files) = 1
           /\ LastRecord.model = clf

\* C4: with a well-formed override the run completes; the pattern dispatched,
\* scored and persisted is colour_fill with the override's RGB, for every
\* reading and classified mode, and the persisted mode is the classifier's.
C4_ValidOverrideWins ==
    (pc \in {"done", "error"} /\ manual_override /\ WellFormed(manual_rgb))
        => LET rgb == ExpectedRGB(manual_rgb)
               mode == IF sensor.lux < 100 THEN "low_light"
                       ELSE IF sensor.thermal_c > 30 THEN "thermal"
                       ELSE "visual_blend"
           IN  /\ pc = "done"
               /\ pred.pattern = [type |-> "colour_fill", rgb |-> rgb]
               /\ actuator_choice = "LED matrix"
                    => led_state = [rows |-> 8, cols |-> 16, fill |-> rgb]
               /\ actuator_choice = "E-Ink"
                    => eink_state = [rows |-> 8, cols |-> 8, fill |-> "light"]
               /\ score = Min(ScoreDen,
                              Max(0, 50000 - sensor.lux) * 1530
                              + Abs((sensor.rgb[1] + sensor.rgb[2] + sensor.rgb[3])
                                    - (rgb[1] + rgb[2] + rgb[3])) * 50000)
               /\ Len(returned) = 1
               /\ LastRecord.model.pattern = [type |-> "colour_fill", rgb |-> rgb]
               /\ LastRecord.model.mode = mode
               /\ clf.mode = mode

\* C4 witness: "#ff0000" over a reading classified low_light, saved as red.
C4_Witness ==
    /\ pc = "done"
    /\ manual_override
    /\ manual_rgb = <<"#","f","f","0","0","0","0">>
    /\ clf.mode = "low_light"
    /\ LastRecord.model.pattern.rgb = <<255, 0, 0>>
    /\ LastRecord.model.mode = "low_light"

\* C5: the record a run persists holds the issue list safety.check returned
\* for the run's reading, and issues never stop a run short of persistence.
C5_IssuesPersisted ==
    pc # "idle"
        => /\ pc = "done"
           /\ Len(returned) = 1
           /\ "issues" \in DOMAIN LastRecord
           /\ LastRecord["issues"] = issues

\* C6: predict is the priority rule: lux below the dark threshold gives
\* low_light/darker whatever the other fields; otherwise a thermal reading
\* above the thermal cut (30) gives thermal/thermal-match; otherwise
\* visual_blend with colour_fill of exactly the ambient RGB.
C6_PredictPriorityRule ==
    "predict" \in applied
        => /\ sensor.lux < 100
                => clf.mode = "low_light" /\ clf.pattern.type = "darker"
           /\ (sensor.lux >= 100 /\ sensor.thermal_c > 30)
                => clf.mode = "thermal" /\ clf.pattern.type = "thermal-match"
           /\ (sensor.lux >= 100 /\ sensor.thermal_c <= 30)
                => /\ clf.mode = "visual_blend"
                   /\ clf.pattern = [type |-> "colour_fill", rgb |-> sensor.rgb]
           /\ sensor.lux = 50 => clf.mode = "low_light"
           /\ (sensor.lux = 15000 /\ sensor.thermal_c = 40) => clf.mode = "thermal"
           /\ (sensor.lux = 15000 /\ sensor.thermal_c = 29)
                => clf.mode = "visual_blend" /\ clf.pattern.rgb = sensor.rgb

\* C6 witness: lux=15000, thermal=29 classified visual_blend.
C6_Witness ==
    /\ "predict" \in applied
    /\ sensor.lux = 15000 /\ sensor.thermal_c = 29
    /\ clf.mode = "visual_blend"
    /\ clf.pattern.rgb = sensor.rgb

\* C7: check evaluates its three rules independently with strict
\* comparisons; a call changes neither the reading nor the cutoff, and a
\* repeated call returns the same issue set.
C7_CheckIndependentRules ==
    [][ /\ sensor' = sensor
        /\ temp_cutoff_c' = temp_cutoff_c
        /\ "check" \in applied'
             => /\ ("ambient_over_temp" \in Range(issues'))
                     <=> (sensor.temperature_c > temp_cutoff_c)
                /\ ("thermal_patch_over_temperature" \in Range(issues'))
                     <=> (sensor.thermal_c > temp_cutoff_c)
                /\ ("collision_risk_close_surface" \in Range(issues'))
                     <=> (sensor.tof_mm < 50)
                /\ Range(issues') \subseteq
                     {"ambient_over_temp", "thermal_patch_over_temperature",
                      "collision_risk_close_surface"}
        /\ "check" \in applied => issues' = issues
      ]_vars

\* C7 witness: a checked reading on which all three rules fire together.
C7_Witness ==
    /\ "check" \in applied
    /\ sensor.temperature_c > temp_cutoff_c
    /\ sensor.thermal_c > temp_cutoff_c
    /\ sensor.tof_mm < 50
    /\ Len(issues) = 3

\* C8: for every label and draw, simulate_sensor's reading has colour
\* channels in 0..255, lux >= 0 and imu_yaw in [0,360) after rounding.
C8_ReadingInRange ==
    pc = "sampled"
        => /\ \A i \in 1..3 : sensor.rgb[i] \in 0..255
           /\ sensor.lux >= 0
           /\ sensor.imu_yaw >= 0 /\ sensor.imu_yaw < 3600
           /\ env = "unknown"
                => \E d \in DrawVectors, y \in YawDraws :
                      sensor = simulate_sensor("grass", d, y)

\* C9 as stated: every completed night run classifies low_light, dispatches
\* and persists the pattern darker, and persists the mode low_light.
C9_NightAlwaysDarker ==
    (pc = "done" /\ env = "night")
        => /\ sensor.lux < 100
           /\ clf.mode = "low_light"
           /\ pred.pattern.type = "darker"
           /\ LastRecord.model.pattern.type = "darker"
           /\ LastRecord.model.mode = "low_light"

\* C9 amended: every completed night run has lux below the dark threshold,
\* classifies low_light and persists the mode low_light; when no manual
\* override colour is in effect, the pattern dispatched and persisted is darker.
C9_NightDarkerUnlessOverridden ==
    (pc = "done" /\ env = "night")
        => /\ sensor.lux < 100
           /\ clf.mode = "low_light"
           /\ LastRecord.model.mode = "low_light"
           /\ LastRecord.tag = "night"
           /\ ~manual_override
                => /\ pred.pattern.type = "darker"
                   /\ LastRecord.model.pattern.type = "darker"
                   /\ actuator_choice = "LED matrix"
                        => led_state = Grid(LEDHeight, LEDWidth, <<0,0,0>>)
                   /\ actuator_choice = "E-Ink"
                        => eink_state = Grid(EInkRows, EInkCols, "dark")

\* C9 witness: a completed night run without override, at the top of the
\* lux jitter range, persisted as low_light / darker.
C9_Witness ==
    /\ pc = "done"
    /\ env = "night"
    /\ ~manual_override
    /\ sensor.lux = 56
    /\ LastRecord.model.mode = "low_light"
    /\ LastRecord.model.pattern.type = "darker"

\* C10: the label train_model.py assigns to (lux, thermal) equals the mode
\* predict returns for a reading with that lux and thermal.
C10_TrainRuleMatchesApp ==
    {"predict", "train"} \subseteq applied => train_mode = clf.mode

====
